---- MODULE Spec2Model ----
(***************************************************************************)
(* Model of the Crossplatform Subsystem Terminals, versions 1.0.0 and      *)
(* 1.0.1: SimpleTerminal (both versions) and MinimalTerminal (1.0.0).      *)
(*                                                                         *)
(* Strings are sequences of one-character strings, so that split, strip,   *)
(* lower, startswith, slicing and join are computed as Python computes     *)
(* them.  Paths are strings too; os.path is modelled as posixpath (the     *)
(* platform only selects the alias overlay, the prompt and the native      *)
(* commands).  The file system is a set of real directories, one symbolic  *)
(* link and one directory the process may not enter.                       *)
(***************************************************************************)
EXTENDS Naturals, Integers, Sequences, FiniteSets, TLC

\* ------------------------------------------------------------------ bounds
\* Number of loop iterations explored by each specification.
MaxSteps == 1
MaxNavSteps == 2
MaxScenarioSteps == 4
MaxHistSteps == 11
MaxPromptSteps == 2
MaxSpawnSteps == 2

\* ------------------------------------------------------ program constants
\* self.history[-10:]
HistoryShown == 10

\* ---------------------------------------------------------------- strings
Whitespace == {" "}

UpperLetters == <<"A","B","C","D","E","F","G","H","I","J","K","L","M",
                  "N","O","P","Q","R","S","T","U","V","W","X","Y","Z">>
LowerLetters == <<"a","b","c","d","e","f","g","h","i","j","k","l","m",
                  "n","o","p","q","r","s","t","u","v","w","x","y","z">>

\* str.lower() on one character
LowerChar(c) ==
    IF \E i \in 1..26 : UpperLetters[i] = c
    THEN LowerLetters[CHOOSE i \in 1..26 : UpperLetters[i] = c]
    ELSE c

\* str.lower()
lower(s) == [i \in 1..Len(s) |-> LowerChar(s[i])]

\* s[n:] with n counted from 0
SliceFrom(s, n) == IF n >= Len(s) THEN <<>> ELSE SubSeq(s, n + 1, Len(s))

\* s[:n]
SliceTo(s, n) == IF n >= Len(s) THEN s ELSE SubSeq(s, 1, n)

\* str.startswith
startswith(s, p) == Len(p) <= Len(s) /\ SubSeq(s, 1, Len(p)) = p

\* str.endswith
endswith(s, p) == Len(p) <= Len(s) /\ SubSeq(s, Len(s) - Len(p) + 1, Len(s)) = p

RECURSIVE lstrip(_)
lstrip(s) ==
    IF s = <<>> THEN s
    ELSE IF Head(s) \in Whitespace THEN lstrip(Tail(s)) ELSE s

RECURSIVE rstrip(_)
rstrip(s) ==
    IF s = <<>> THEN s
    ELSE IF s[Len(s)] \in Whitespace THEN rstrip(SubSeq(s, 1, Len(s) - 1)) ELSE s

\* str.strip()
strip(s) == rstrip(lstrip(s))

\* the longest prefix of s without whitespace
RECURSIVE FirstWord(_)
FirstWord(s) ==
    IF s = <<>> THEN <<>>
    ELSE IF Head(s) \in Whitespace THEN <<>>
    ELSE <<Head(s)>> \o FirstWord(Tail(s))

\* str.split(): the whitespace-separated tokens, no empty token
RECURSIVE split(_)
split(s) ==
    LET t == lstrip(s) IN
    IF t = <<>> THEN <<>>
    ELSE LET w == FirstWord(t) IN <<w>> \o split(SliceFrom(t, Len(w)))

\* str.split(maxsplit=1): the first token and the rest with its leading
\* whitespace removed (the rest is left out when it is empty)
split_maxsplit1(s) ==
    LET t == lstrip(s) IN
    IF t = <<>> THEN <<>>
    ELSE LET w == FirstWord(t)
             r == lstrip(SliceFrom(t, Len(w)))
         IN IF r = <<>> THEN <<w>> ELSE <<w, r>>

\* sep.join(parts)
RECURSIVE join(_, _)
join(sep, parts) ==
    IF parts = <<>> THEN <<>>
    ELSE IF Len(parts) = 1 THEN parts[1]
    ELSE parts[1] \o sep \o join(sep, Tail(parts))

\* str.split(sep) for a one-character separator: empty fields are kept
RECURSIVE split_on(_, _)
split_on(s, sep) ==
    IF \A i \in 1..Len(s) : s[i] # sep THEN <<s>>
    ELSE LET i == CHOOSE k \in 1..Len(s) :
                     s[k] = sep /\ \A j \in 1..(k - 1) : s[j] # sep
         IN <<SliceTo(s, i - 1)>> \o split_on(SliceFrom(s, i), sep)

\* str.replace(old, new) for a one-character old
RECURSIVE replace(_, _, _)
replace(s, old, new) ==
    IF s = <<>> THEN <<>>
    ELSE (IF Head(s) = old THEN new ELSE <<Head(s)>>) \o replace(Tail(s), old, new)

\* str.rfind(c) + 1: the length of the prefix that ends with the last c
RfindPlus1(s, c) ==
    IF \A i \in 1..Len(s) : s[i] # c THEN 0
    ELSE CHOOSE k \in 1..Len(s) : s[k] = c /\ \A j \in (k + 1)..Len(s) : s[j] # c

\* str.rstrip('/')
RECURSIVE rstrip_slash(_)
rstrip_slash(s) ==
    IF s = <<>> THEN s
    ELSE IF s[Len(s)] = "/" THEN rstrip_slash(SubSeq(s, 1, Len(s) - 1)) ELSE s

\* ------------------------------------------------------------------ paths
Slash == <<"/">>
Tilde == <<"~">>
Dash == <<"-">>
DotDot == <<".", ".">>
Dot == <<".">>

\* os.path.isabs
isabs(p) == startswith(p, Slash)

\* os.path.join(a, b)
path_join(a, b) ==
    IF startswith(b, Slash) THEN b
    ELSE IF a = <<>> \/ endswith(a, Slash) THEN a \o b
    ELSE a \o Slash \o b

\* the component loop of posixpath.normpath
RECURSIVE NormComps(_, _, _)
NormComps(comps, acc, rooted) ==
    IF comps = <<>> THEN acc
    ELSE LET c == Head(comps) IN
         IF c = <<>> \/ c = Dot THEN NormComps(Tail(comps), acc, rooted)
         ELSE IF c # DotDot
                 \/ (~rooted /\ acc = <<>>)
                 \/ (acc # <<>> /\ acc[Len(acc)] = DotDot)
              THEN NormComps(Tail(comps), Append(acc, c), rooted)
         ELSE IF acc # <<>>
              THEN NormComps(Tail(comps), SubSeq(acc, 1, Len(acc) - 1), rooted)
         ELSE NormComps(Tail(comps), acc, rooted)

\* os.path.normpath
normpath(p) ==
    IF p = <<>> THEN Dot
    ELSE LET slashes == IF ~startswith(p, Slash) THEN 0
                        ELSE IF startswith(p, <<"/","/">>)
                                /\ ~startswith(p, <<"/","/","/">>) THEN 2
                        ELSE 1
             comps == NormComps(split_on(p, "/"), <<>>, slashes > 0)
             body == join(Slash, comps)
             res == (IF slashes = 2 THEN <<"/","/">>
                     ELSE IF slashes = 1 THEN Slash ELSE <<>>) \o body
         IN IF res = <<>> THEN Dot ELSE res

\* os.path.dirname
dirname(p) ==
    LET head == SliceTo(p, RfindPlus1(p, "/")) IN
    IF head # <<>> /\ (\E i \in 1..Len(head) : head[i] # "/")
    THEN rstrip_slash(head) ELSE head

\* os.path.basename
basename(p) == SliceFrom(p, RfindPlus1(p, "/"))

\* ------------------------------------------------------------ file system
\* The directory tree the session runs in: / with the home directory /h,
\* the work directory /w with its subdirectory /w/d, the directory /p that
\* exists but may not be
\* entered (no search permission), the regular file /f and the symbolic
\* link /l -> /w.  Names are one character long; the path operators above
\* do not depend on that.
RootDir == <<"/">>
HomeDir == <<"/", "h">>
WorkDir == <<"/", "w">>
SubDir == <<"/", "w", "/", "d">>
LockedDir == <<"/", "p">>
RegularFile == <<"/", "f">>
LinkPath == <<"/", "l">>
LinkTarget == WorkDir

\* what the kernel finds when it walks comps from the directory cur:
\* a directory, a regular file, or nothing
RECURSIVE Walk(_, _, _)
Walk(comps, cur, fs) ==
    IF comps = <<>> THEN [kind |-> "dir", dir |-> cur]
    ELSE LET c == Head(comps) IN
         IF c = <<>> \/ c = Dot THEN Walk(Tail(comps), cur, fs)
         ELSE IF c = DotDot THEN Walk(Tail(comps), dirname(cur), fs)
         ELSE IF cur = LockedDir THEN [kind |-> "none", dir |-> cur]
         ELSE LET child == path_join(cur, c)
                  real == IF child = LinkPath THEN LinkTarget ELSE child
              IN IF real \in fs THEN Walk(Tail(comps), real, fs)
                 ELSE IF real = RegularFile /\ Len(comps) = 1
                      THEN [kind |-> "file", dir |-> real]
                 ELSE [kind |-> "none", dir |-> cur]

\* the object the path names for a process whose working directory is base
lookup(path, base, fs) ==
    IF path = <<>> THEN [kind |-> "none", dir |-> base]
    ELSE Walk(split_on(path, "/"), IF isabs(path) THEN RootDir ELSE base, fs)

\* os.path.exists
os_path_exists(path, base, fs) == lookup(path, base, fs).kind # "none"

\* os.path.isdir
os_path_isdir(path, base, fs) == lookup(path, base, fs).kind = "dir"

\* os.chdir: the new working directory, or the error it raises
os_chdir(path, base, fs) ==
    LET l == lookup(path, base, fs) IN
    IF l.kind = "dir" /\ l.dir # LockedDir THEN [ok |-> TRUE, dir |-> l.dir]
    ELSE [ok |-> FALSE, dir |-> base]

\* os.makedirs(path, exist_ok=True): every missing component is created
RECURSIVE MakeWalk(_, _, _)
MakeWalk(comps, cur, fs) ==
    IF comps = <<>> THEN [ok |-> TRUE, dirs |-> fs]
    ELSE LET c == Head(comps) IN
         IF c = <<>> \/ c = Dot THEN MakeWalk(Tail(comps), cur, fs)
         ELSE IF c = DotDot THEN MakeWalk(Tail(comps), dirname(cur), fs)
         ELSE IF cur = LockedDir THEN [ok |-> FALSE, dirs |-> fs]
         ELSE LET child == path_join(cur, c)
                  real == IF child = LinkPath THEN LinkTarget ELSE child
              IN IF real = RegularFile THEN [ok |-> FALSE, dirs |-> fs]
                 ELSE MakeWalk(Tail(comps), real, fs \cup {real})

os_makedirs(path, base, fs) ==
    IF path = <<>> THEN [ok |-> FALSE, dirs |-> fs]
    ELSE MakeWalk(split_on(path, "/"), IF isabs(path) THEN RootDir ELSE base, fs)

\* a variant in which the home directory is named relative to where the
\* session is
Path_home_relative == SliceFrom(HomeDir, 1)

\* str(Path.home())
Path_home == HomeDir

\* os.path.expanduser: ~ and ~/rest name the home directory, ~user is left
\* as it is (no other user is known)
expanduser(path) ==
    IF ~startswith(path, Tilde) THEN path
    ELSE IF Len(path) = 1 \/ path[2] = "/"
         THEN LET r == rstrip_slash(HomeDir) \o SliceFrom(path, 1)
              IN IF r = <<>> THEN Slash ELSE r
    ELSE path

\* ---------------------------------------------------------- string literals
s_cd == <<"c","d">>
s_cd_sp == <<"c","d"," ">>
s_exit == <<"e","x","i","t">>
s_quit == <<"q","u","i","t">>
s_clear == <<"c","l","e","a","r">>
s_cls == <<"c","l","s">>
s_pwd == <<"p","w","d">>
s_mkdir == <<"m","k","d","i","r">>
s_ls == <<"l","s">>
s_dir == <<"d","i","r">>
s_history == <<"h","i","s","t","o","r","y">>
s_help == <<"h","e","l","p">>
s_ls_sp == <<"l","s"," ">>
s_dir_sp == <<"d","i","r"," ">>
Space == <<" ">>

\* ---------------------------------------------------------------- aliases
Systems == {"windows", "linux", "darwin"}
Versions == {"1.0.0", "1.0.1"}

\* the base table of load_aliases
BaseAliases ==
    (<<"l","l">> :> <<"l","s"," ","-","l","a">>) @@
    (<<"l","a">> :> <<"l","s"," ","-","a">>) @@
    (<<"c","l","s">> :> <<"c","l","e","a","r">>) @@
    (<<"m","d">> :> <<"m","k","d","i","r">>) @@
    (<<"r","d">> :> <<"r","m","d","i","r">>) @@
    (<<".",".">> :> <<"c","d"," ",".",".">>) @@
    (<<".",".",".">> :> <<"c","d"," ",".",".","/",".",".">>) @@
    (<<".",".",".",".">> :> <<"c","d"," ",".",".","/",".",".","/",".",".">>)

\* the Windows overlay of load_aliases (both versions)
WindowsAliases ==
    (<<"l","s">> :> <<"d","i","r">>) @@
    (<<"r","m">> :> <<"d","e","l">>) @@
    (<<"c","p">> :> <<"c","o","p","y">>) @@
    (<<"m","v">> :> <<"m","o","v","e">>) @@
    (<<"c","a","t">> :> <<"t","y","p","e">>) @@
    (<<"p","w","d">> :> <<"c","d">>)

\* the entry that version 1.0.1 adds to the Windows overlay
WindowsAliases101 ==
    (<<"m","k","d","i","r"," ","-","p">> :> <<"m","k","d","i","r">>)

\* load_aliases: aliases.update(overlay) lets the overlay win
load_aliases(system, version) ==
    IF system = "windows"
    THEN (IF version = "1.0.1" THEN WindowsAliases101 @@ WindowsAliases
          ELSE WindowsAliases) @@ BaseAliases
    ELSE BaseAliases

\* expand_aliases
expand_aliases_noargs(command, table) ==
    LET parts == split(command) IN
    IF parts # <<>> /\ parts[1] \in DOMAIN table
    THEN table[parts[1]] \o Space
    ELSE command

expand_aliases(command, table) ==
    LET parts == split(command) IN
    IF parts # <<>> /\ parts[1] \in DOMAIN table
    THEN table[parts[1]] \o Space \o join(Space, Tail(parts))
    ELSE command

\* ------------------------------------------------- output and OS outcomes
\* one printed line: what is printed and the text it carries
Msg(tag, text) == [tag |-> tag, text |-> text, n |-> 0]
MsgN(tag, text, n) == [tag |-> tag, text |-> text, n |-> n]

\* one started process: by subprocess.Popen or by os.system, with the
\* command line, its working directory and whether it was waited for
Proc(via, cmd, cwd, waited) == [via |-> via, cmd |-> cmd, cwd |-> cwd, waited |-> waited]

\* What the operating system does during one loop iteration, beyond what
\* the file system decides: whether os.getcwd() succeeds (it raises when
\* the directory vanished meanwhile) and how a Popen/communicate ends.
ExtOutcomes == {"ok", "launch_fail", "interrupt"}
OsOutcomes == [getcwd_ok : BOOLEAN, ext : ExtOutcomes]
OsOk == [getcwd_ok |-> TRUE, ext |-> "ok"]

\* the result of a handler that did nothing yet, in the session state st;
\* oserror names the OS call that failed in the handler, raised the
\* exception that left execute_command
Res(st) ==
    [ret |-> TRUE, current_dir |-> st.current_dir, cwd |-> st.cwd,
     dirs |-> st.dirs, out |-> <<>>, handler |-> "none", arg |-> <<>>,
     expanded |-> <<>>, spawn |-> <<>>, raised |-> "none", oserror |-> "none"]

\* ------------------------------------------------------- SimpleTerminal
\* change_directory, the special paths and the resolution: whether the
\* call ends at once because "-" was given at the root, and otherwise the
\* normalized absolute path to enter
change_directory_resolve_noroot(path, st) ==
    LET p1 == IF path = Tilde THEN Path_home
              ELSE IF path = Dash THEN dirname(st.current_dir)
              ELSE path
        p2 == IF startswith(p1, Tilde) THEN expanduser(p1) ELSE p1
        p3 == IF ~isabs(p2) THEN path_join(st.current_dir, p2) ELSE p2
    IN [at_root |-> FALSE, path |-> normpath(p3)]

change_directory_resolve(path, st) ==
    LET previous == dirname(st.current_dir)
        p1 == IF path = Tilde THEN Path_home
              ELSE IF path = Dash THEN previous
              ELSE path
        p2 == IF startswith(p1, Tilde) THEN expanduser(p1) ELSE p1
        p3 == IF ~isabs(p2) THEN path_join(st.current_dir, p2) ELSE p2
    IN [at_root |-> path = Dash /\ previous = st.current_dir,
        path |-> normpath(p3)]

\* change_directory, the validation and the change: r0 is the result so far
change_directory_enter_noisdir(path, r0, st, env) ==
    LET ch == os_chdir(path, st.cwd, st.dirs) IN
    IF os_path_exists(path, st.cwd, st.dirs)
    THEN IF ~ch.ok
         THEN [r0 EXCEPT !.out = <<Msg("Error changing directory", path)>>,
                         !.oserror = "chdir", !.ret = FALSE]
         ELSE IF ~env.getcwd_ok
         THEN [r0 EXCEPT !.cwd = ch.dir,
                         !.out = <<Msg("Error changing directory", path)>>,
                         !.oserror = "getcwd", !.ret = FALSE]
         ELSE [r0 EXCEPT !.cwd = ch.dir, !.current_dir = ch.dir, !.ret = TRUE]
    ELSE [r0 EXCEPT !.out = <<Msg("Directory not found", path)>>,
                    !.ret = FALSE]

change_directory_enter_computed(path, r0, st, env) ==
    LET ch == os_chdir(path, st.cwd, st.dirs) IN
    IF os_path_exists(path, st.cwd, st.dirs) /\ os_path_isdir(path, st.cwd, st.dirs)
    THEN IF ~ch.ok
         THEN [r0 EXCEPT !.out = <<Msg("Error changing directory", path)>>,
                         !.oserror = "chdir", !.ret = FALSE]
         ELSE IF ~env.getcwd_ok
         THEN [r0 EXCEPT !.cwd = ch.dir,
                         !.out = <<Msg("Error changing directory", path)>>,
                         !.oserror = "getcwd", !.ret = FALSE]
         ELSE [r0 EXCEPT !.cwd = ch.dir, !.current_dir = path, !.ret = TRUE]
    ELSE [r0 EXCEPT !.out = <<Msg("Directory not found", path)>>,
                    !.ret = FALSE]

change_directory_enter(path, r0, st, env) ==
    LET ch == os_chdir(path, st.cwd, st.dirs) IN
    IF os_path_exists(path, st.cwd, st.dirs) /\ os_path_isdir(path, st.cwd, st.dirs)
    THEN IF ~ch.ok
         THEN [r0 EXCEPT !.out = <<Msg("Error changing directory", path)>>,
                         !.oserror = "chdir", !.ret = FALSE]
         ELSE IF ~env.getcwd_ok
         THEN [r0 EXCEPT !.cwd = ch.dir,
                         !.out = <<Msg("Error changing directory", path)>>,
                         !.oserror = "getcwd", !.ret = FALSE]
         ELSE [r0 EXCEPT !.cwd = ch.dir, !.current_dir = ch.dir, !.ret = TRUE]
    ELSE [r0 EXCEPT !.out = <<Msg("Directory not found", path)>>,
                    !.ret = FALSE]

\* change_directory (the same code in 1.0.0 and 1.0.1)
change_directory(path, st, env) ==
    LET r0 == [Res(st) EXCEPT !.handler = "cd", !.arg = path]
        t == change_directory_resolve(path, st)
    IN IF t.at_root
       THEN [r0 EXCEPT !.out = <<Msg("Already at root directory", <<>>)>>,
                       !.ret = TRUE]
       ELSE change_directory_enter(t.path, r0, st, env)

\* os.getlogin() and platform.node()
UserName == <<"u">>
HostName == <<"n">>

\* get_prompt: os.getlogin() comes first and raises OSError where the
\* process has no login name (no controlling terminal)
get_prompt(st, login) ==
    LET dir_name == basename(st.current_dir)
    IN IF ~login THEN [raised |-> "OSError", text |-> <<>>]
       ELSE [raised |-> "none",
             text |-> IF st.system = "windows"
                      THEN <<"P","S"," ">> \o dir_name \o <<">"," ">>
                      ELSE IF st.system = "darwin"
                      THEN UserName \o <<"@">> \o HostName \o <<" ">> \o dir_name
                           \o <<" ","%"," ">>
                      ELSE UserName \o <<"@">> \o HostName \o <<":">> \o dir_name
                           \o <<"$"," ">>]

\* clear_screen
clear_screen(st) ==
    [Res(st) EXCEPT !.handler = "clear",
        !.spawn = <<Proc("system", IF st.system = "windows" THEN s_cls ELSE s_clear,
                         st.cwd, TRUE)>>]

\* list_directory (1.0.0)
list_directory(command, st) ==
    LET native == IF st.system = "windows"
                  THEN s_dir_sp \o (IF startswith(lower(command), s_dir_sp)
                                    THEN SliceFrom(command, 3) ELSE <<>>)
                  ELSE s_ls_sp \o (IF startswith(lower(command), s_ls_sp)
                                   THEN SliceFrom(command, 3) ELSE <<>>)
    IN [Res(st) EXCEPT !.handler = "ls", !.arg = command,
                       !.spawn = <<Proc("system", native, st.cwd, TRUE)>>]

\* mkdir (1.0.1)
mkdir(path, st) ==
    LET full_path == replace(path, "~", Path_home)
        m == os_makedirs(full_path, st.cwd, st.dirs)
        r0 == [Res(st) EXCEPT !.handler = "mkdir", !.arg = path]
    IN IF m.ok
       THEN [r0 EXCEPT !.dirs = m.dirs,
                       !.out = <<Msg("Directory created", full_path)>>]
       ELSE [r0 EXCEPT !.out = <<Msg("Error creating directory", full_path)>>,
                       !.oserror = "makedirs"]

\* what the host's command interpreter does to the directory tree when it
\* runs the command line in the directory cwd: its mkdir creates one
\* directory; no other command of the model touches the tree
ShellEffect(command, cwd, fs) ==
    LET parts == split(command) IN
    IF Len(parts) = 2 /\ parts[1] = s_mkdir
    THEN LET target == normpath(path_join(cwd, parts[2]))
             parent == lookup(dirname(target), cwd, fs)
         IN IF parent.kind = "dir" /\ parent.dir # LockedDir
               /\ basename(target) # <<>>
               /\ lookup(target, cwd, fs).kind = "none"
            THEN fs \cup {path_join(parent.dir, basename(target))}
            ELSE fs
    ELSE fs

\* a variant that starts the process wherever the terminal process is
external_command_proccwd(command, st, env) ==
    LET r0 == [Res(st) EXCEPT !.handler = "external", !.arg = command] IN
    IF env.ext = "launch_fail"
    THEN [r0 EXCEPT !.out = <<Msg("Error executing command", command)>>,
                    !.oserror = "launch"]
    ELSE IF env.ext = "interrupt"
    THEN [r0 EXCEPT !.spawn = <<Proc("popen", command, st.cwd, FALSE)>>,
                    !.raised = "KeyboardInterrupt"]
    ELSE [r0 EXCEPT !.spawn = <<Proc("popen", command, st.cwd, TRUE)>>,
                    !.dirs = ShellEffect(command, st.current_dir, st.dirs),
                    !.out = <<Msg("relay", command)>>]

\* the External Delegator: subprocess.Popen(command, shell=True,
\* cwd=self.current_dir, ...) followed by process.communicate()
external_command(command, st, env) ==
    LET r0 == [Res(st) EXCEPT !.handler = "external", !.arg = command] IN
    IF env.ext = "launch_fail"
    THEN [r0 EXCEPT !.out = <<Msg("Error executing command", command)>>,
                    !.oserror = "launch"]
    ELSE IF env.ext = "interrupt"
    THEN [r0 EXCEPT !.spawn = <<Proc("popen", command, st.current_dir, FALSE)>>,
                    !.raised = "KeyboardInterrupt"]
    ELSE [r0 EXCEPT !.spawn = <<Proc("popen", command, st.current_dir, TRUE)>>,
                    !.dirs = ShellEffect(command, st.current_dir, st.dirs),
                    !.out = <<Msg("relay", command)>>]

\* self.history[-10:]
history_tail(history) ==
    IF Len(history) <= HistoryShown THEN history
    ELSE SubSeq(history, Len(history) - HistoryShown + 1, Len(history))

\* the history built-in (1.0.0)
show_history(st) ==
    LET shown == history_tail(st.history) IN
    [Res(st) EXCEPT !.handler = "history",
        !.out = <<Msg("Command History:", <<>>)>>
                \o [i \in 1..Len(shown) |-> MsgN("entry", shown[i], i)]]

\* show_help
show_help(st) == [Res(st) EXCEPT !.handler = "help", !.out = <<Msg("help", <<>>)>>]

\* execute_command of version 1.0.0
execute_command_100(command, st, env) ==
    IF strip(command) = <<>> THEN Res(st)
    ELSE
    LET cmd == expand_aliases(command, st.aliases)
        cmd_lower == lower(cmd)
        r == IF startswith(cmd_lower, s_cd_sp)
                 THEN change_directory(strip(SliceFrom(cmd, 3)), st, env)
             ELSE IF cmd_lower = s_cd
                 THEN change_directory(Path_home, st, env)
             ELSE IF cmd_lower \in {s_exit, s_quit}
                 THEN [Res(st) EXCEPT !.handler = "exit",
                                      !.out = <<Msg("Goodbye!", <<>>)>>,
                                      !.ret = FALSE]
             ELSE IF cmd_lower \in {s_clear, s_cls}
                 THEN clear_screen(st)
             ELSE IF cmd_lower = s_pwd
                 THEN [Res(st) EXCEPT !.handler = "pwd",
                                      !.out = <<Msg("print", st.current_dir)>>]
             ELSE IF cmd_lower \in {s_ls, s_dir}
                 THEN list_directory(cmd, st)
             ELSE IF cmd_lower = s_history
                 THEN show_history(st)
             ELSE IF cmd_lower = s_help
                 THEN show_help(st)
             ELSE external_command(cmd, st, env)
    IN [r EXCEPT !.expanded = cmd]

\* execute_command of version 1.0.1
execute_command_101(command, st, env) ==
    IF strip(command) = <<>> THEN Res(st)
    ELSE
    LET cmd == expand_aliases(command, st.aliases)
        cmd_lower == lower(cmd)
        parts == split_maxsplit1(cmd)
        r == IF startswith(cmd_lower, s_cd_sp)
                 THEN change_directory(strip(SliceFrom(cmd, 3)), st, env)
             ELSE IF cmd_lower = s_cd
                 THEN change_directory(Path_home, st, env)
             ELSE IF cmd_lower \in {s_exit, s_quit}
                 THEN [Res(st) EXCEPT !.handler = "exit",
                                      !.out = <<Msg("Goodbye!", <<>>)>>,
                                      !.ret = FALSE]
             ELSE IF cmd_lower \in {s_clear, s_cls}
                 THEN clear_screen(st)
             ELSE IF cmd_lower = s_pwd
                 THEN [Res(st) EXCEPT !.handler = "pwd",
                                      !.out = <<Msg("print", st.current_dir)>>]
             ELSE IF startswith(cmd_lower, s_mkdir)
                 THEN IF Len(parts) > 1
                      THEN mkdir(parts[2], st)
                      ELSE [Res(st) EXCEPT !.handler = "mkdir",
                                           !.out = <<Msg("mkdir: missing path", <<>>)>>]
             ELSE IF cmd_lower \in {s_ls, s_dir}
                 THEN [Res(st) EXCEPT !.handler = "ls", !.arg = cmd,
                           !.spawn = <<Proc("system", cmd, st.cwd, TRUE)>>]
             ELSE external_command(cmd, st, env)
    IN [r EXCEPT !.expanded = cmd]

\* a variant that expands the aliases of the line before handing it on,
\* so that the expansion is expanded again
execute_command_twice(command, st, env) ==
    IF st.version = "1.0.0"
    THEN execute_command_100(expand_aliases(command, st.aliases), st, env)
    ELSE execute_command_101(expand_aliases(command, st.aliases), st, env)

execute_command(command, st, env) ==
    IF st.version = "1.0.0" THEN execute_command_100(command, st, env)
    ELSE execute_command_101(command, st, env)

\* a variant that records the line after alias expansion
simple_run_line_expanded(line, st, env) ==
    LET command == strip(line)
        st1 == [st EXCEPT !.history =
                   Append(st.history, expand_aliases(command, st.aliases))]
        r == IF command # <<>> THEN execute_command(command, st1, env) ELSE Res(st)
    IN IF r.raised = "KeyboardInterrupt"
       THEN [res |-> [r EXCEPT !.out = r.out \o <<Msg("Use 'exit' to quit", <<>>)>>],
             history |-> st1.history, state |-> "Running"]
       ELSE [res |-> r,
             history |-> IF command # <<>> THEN st1.history ELSE st.history,
             state |-> IF r.ret THEN "Running" ELSE "Terminated"]

\* One iteration of SimpleTerminal.run that reads the line: the outcome of
\* the iteration and whether the loop goes on
simple_run_line(line, st, env) ==
    LET command == strip(line)
        st1 == [st EXCEPT !.history = Append(st.history, command)]
        r == IF command # <<>> THEN execute_command(command, st1, env) ELSE Res(st)
    IN IF r.raised = "KeyboardInterrupt"
       THEN [res |-> [r EXCEPT !.out = r.out \o <<Msg("Use 'exit' to quit", <<>>)>>],
             history |-> st1.history, state |-> "Running"]
       ELSE [res |-> r,
             history |-> IF command # <<>> THEN st1.history ELSE st.history,
             state |-> IF r.ret THEN "Running" ELSE "Terminated"]

\* the prompt of MinimalTerminal.run
minimal_prompt(st) ==
    [raised |-> "none", text |-> basename(st.current_dir) \o <<">"," ">>]

\* ------------------------------------------------------ MinimalTerminal
\* One iteration of MinimalTerminal.run that reads the line.  The terminal
\* keeps no history and has no alias table.  An error of os.chdir in the
\* bare cd branch is caught by no handler and ends the program.
minimal_run_line(line, st, env) ==
    LET command == strip(line)
        cl == lower(command)
        r0 == Res(st)
        new_dir0 == strip(SliceFrom(command, 3))
        new_dir == IF new_dir0 = Tilde THEN Path_home ELSE new_dir0
        chHome == os_chdir(Path_home, st.cwd, st.dirs)
        ch == os_chdir(new_dir, st.cwd, st.dirs)
    IN IF cl \in {s_exit, s_quit}
       THEN [res |-> [r0 EXCEPT !.handler = "exit", !.ret = FALSE,
                                !.out = <<Msg("Goodbye!", <<>>)>>],
             history |-> st.history, state |-> "Terminated"]
       ELSE IF cl = s_cd
       THEN IF chHome.ok
            THEN [res |-> [r0 EXCEPT !.handler = "cd", !.arg = Path_home,
                                     !.current_dir = Path_home, !.cwd = chHome.dir],
                  history |-> st.history, state |-> "Running"]
            ELSE [res |-> [r0 EXCEPT !.handler = "cd", !.arg = Path_home,
                                     !.current_dir = Path_home, !.ret = FALSE,
                                     !.oserror = "chdir", !.raised = "OSError"],
                  history |-> st.history, state |-> "Crashed"]
       ELSE IF startswith(cl, s_cd_sp)
       THEN [res |-> IF ch.ok /\ env.getcwd_ok
                     THEN [r0 EXCEPT !.handler = "cd", !.arg = new_dir,
                                     !.cwd = ch.dir, !.current_dir = ch.dir]
                     ELSE [r0 EXCEPT !.handler = "cd", !.arg = new_dir,
                                     !.cwd = ch.dir, !.ret = FALSE,
                                     !.oserror = IF ch.ok THEN "getcwd" ELSE "chdir",
                                     !.out = <<Msg("Directory not found", new_dir)>>],
             history |-> st.history, state |-> "Running"]
       ELSE IF command # <<>>
       THEN LET e == external_command(command, st, env) IN
            [res |-> IF e.raised = "KeyboardInterrupt"
                     THEN [e EXCEPT !.out = e.out \o <<Msg("Use 'exit' to quit", <<>>)>>]
                     ELSE e,
             history |-> st.history, state |-> "Running"]
       ELSE [res |-> r0, history |-> st.history, state |-> "Running"]

\* ------------------------------------------------------------ input lines
\* lines of every kind the classifier distinguishes
Lines ==
    { <<"c","d">>,
      <<"c","d"," ","x">>,
      <<"c","d"," ","/","p">>,
      <<"C","D"," ","/","h">>,
      <<"e","x","i","t">>,
      <<"Q","u","i","t">>,
      <<"p","w","d">>,
      <<"l","s">>,
      <<"l","s"," ","-","a">>,
      <<"l","l">>,
      <<"l","a"," ","s"," "," ","w">>,
      <<"c","l","s">>,
      <<"c","l","e","a","r">>,
      <<"h","i","s","t","o","r","y">>,
      <<"h","e","l","p">>,
      <<"m","k","d","i","r"," ","s">>,
      <<"m","k","d","i","r">>,
      <<"m","d"," ","s">>,
      <<"m","k","d","i","r","s"," ","s">>,
      <<"l","s","o","m","e","t","h","i","n","g">>,
      <<"e","c","h","o","f","o","o"," ","1">>,
      <<".",".">>,
      <<"d","i","r">>,
      <<" ","l","l"," ">>,
      <<" ">> }

\* navigation lines
NavLines ==
    { <<"c","d">>,
      <<"c","d"," ","/">>,
      <<"c","d"," ","-">>,
      <<"c","d"," ","~">>,
      <<"c","d"," ","d">>,
      <<"c","d"," ","x">>,
      <<"c","d"," ","/","p">>,
      <<"c","d"," ","/","l">>,
      <<"c","d"," ",".",".">>,
      <<"c","d"," ","/","f">>,
      <<"c","d"," ","/","w","/",".",".","/","h">>,
      <<"c","d"," ",".","/","d","/",".",".">>,
      <<"c","d"," ","/","w","/","d","/">>,
      <<"m","k","d","i","r"," ","-">>,
      <<"p","w","d">> }

\* the lines of the mkdir / cd / cd - / pwd scenario
ScenarioLines ==
    { <<"m","k","d","i","r"," ","s">>,
      <<"c","d"," ","s">>,
      <<"c","d"," ","-">>,
      <<"p","w","d">> }

\* lines that change the directory and lines that start a process
SpawnLines ==
    { <<"c","d"," ","d">>,
      <<"c","d"," ","x">>,
      <<"c","d"," ","/","l">>,
      <<"l","s">>,
      <<"c","l","e","a","r">>,
      <<"e","c","h","o","f","o","o"," ","1">> }

\* lines for the step-by-step loop
PromptLines ==
    { <<"p","w","d">>,
      <<"c","d"," ","x">>,
      <<"e","x","i","t">>,
      <<"e","c","h","o","f","o","o"," ","1">> }

\* lines for filling and showing the history
HistLines ==
    { <<"h","i","s","t","o","r","y">>,
      <<"p","w","d">> }

\* ------------------------------------------------------------------ state
VARIABLES
    version,      \* which main.py runs: "1.0.0" or "1.0.1"
    terminal,     \* the class main() instantiated
    system,       \* platform.system().lower()
    aliases,      \* self.aliases
    current_dir,  \* self.current_dir
    cwd,          \* the working directory of the process
    dirs,         \* the directories that exist
    history,      \* self.history
    state,        \* "Running", "Terminated", or "Crashed" (uncaught error)
    log,          \* one record per loop iteration: what was read, the
                  \* state before it, and what the iteration did and printed
    login_ok,     \* whether os.getlogin() succeeds in this environment
    pc            \* where the loop is: "prompt" (top of an iteration),
                  \* "input" (blocked in input()), "except" (in run's
                  \* except Exception handler)

vars == <<version, terminal, system, aliases, current_dir, cwd, dirs, history, state,
          log, login_ok, pc>>

StartDirs == {WorkDir, RootDir}

\* __init__ of the chosen terminal, in some environment: the platform,
\* the directory the program was started in, whether the home directory
\* exists, and whether there is a login name to ask for (a question only
\* SimpleTerminal asks)
Init ==
    /\ version \in Versions
    /\ terminal \in (IF version = "1.0.0" THEN {"SimpleTerminal", "MinimalTerminal"}
                     ELSE {"SimpleTerminal"})
    /\ system \in Systems
    /\ aliases = (IF terminal = "SimpleTerminal" THEN load_aliases(system, version)
                  ELSE <<>>)
    /\ cwd \in StartDirs
    /\ current_dir = cwd
    /\ dirs \in {{RootDir, WorkDir, SubDir, LockedDir, HomeDir},
                 {RootDir, WorkDir, SubDir, LockedDir}}
    /\ history = <<>>
    /\ state = "Running"
    /\ log = <<>>
    /\ login_ok \in (IF terminal = "SimpleTerminal" THEN BOOLEAN ELSE {TRUE})
    /\ pc = "prompt"

Session ==
    [version |-> version, system |-> system, aliases |-> aliases,
     current_dir |-> current_dir, cwd |-> cwd, dirs |-> dirs, history |-> history]

Before == [current_dir |-> current_dir, cwd |-> cwd, dirs |-> dirs]

Entry(kind, line, it) ==
    [kind |-> kind, line |-> line, pre |-> Before, res |-> it.res,
     history |-> it.history, state |-> it.state]

Commit(kind, line, it) ==
    /\ current_dir' = it.res.current_dir
    /\ cwd' = it.res.cwd
    /\ dirs' = it.res.dirs
    /\ history' = it.history
    /\ state' = it.state
    /\ log' = Append(log, Entry(kind, line, it))
    /\ pc' = "prompt"
    /\ UNCHANGED <<version, terminal, system, aliases, login_ok>>

\* the prompt of this iteration
Prompt ==
    IF terminal = "SimpleTerminal" THEN get_prompt(Session, login_ok)
    ELSE minimal_prompt(Session)

\* input() is reached in this iteration: either the loop already blocks in
\* it, or it is at the top of an iteration and the prompt can be built
AtInput == pc = "input" \/ (pc = "prompt" /\ Prompt.raised = "none")

\* SimpleTerminal.run: one iteration in which input() returns the line and
\* the operating system behaves in one of the given ways
SimpleStep(line, bound, outcomes) ==
    /\ terminal = "SimpleTerminal" /\ state = "Running" /\ Len(log) < bound
    /\ AtInput
    /\ \E env \in outcomes : Commit("line", line, simple_run_line(line, Session, env))

SimpleLine(line, bound) == SimpleStep(line, bound, OsOutcomes)

\* SimpleTerminal.run: input() raises KeyboardInterrupt
SimpleInterrupt(bound) ==
    /\ terminal = "SimpleTerminal" /\ state = "Running" /\ Len(log) < bound
    /\ AtInput
    /\ Commit("interrupt", <<>>,
              [res |-> [Res(Session) EXCEPT !.out = <<Msg("Use 'exit' to quit", <<>>)>>],
               history |-> history, state |-> "Running"])

\* SimpleTerminal.run: input() raises EOFError
SimpleEOF(bound) ==
    /\ terminal = "SimpleTerminal" /\ state = "Running" /\ Len(log) < bound
    /\ AtInput
    /\ Commit("eof", <<>>,
              [res |-> [Res(Session) EXCEPT !.out = <<Msg("Goodbye!", <<>>)>>],
               history |-> history, state |-> "Terminated"])

\* MinimalTerminal.run: one iteration in which input() returns the line
MinimalLine(line, bound) ==
    /\ terminal = "MinimalTerminal" /\ state = "Running" /\ Len(log) < bound
    /\ AtInput
    /\ \E env \in OsOutcomes : Commit("line", line, minimal_run_line(line, Session, env))

\* MinimalTerminal.run: input() raises KeyboardInterrupt
MinimalInterrupt(bound) ==
    /\ terminal = "MinimalTerminal" /\ state = "Running" /\ Len(log) < bound
    /\ AtInput
    /\ Commit("interrupt", <<>>,
              [res |-> [Res(Session) EXCEPT !.out = <<Msg("Use 'exit' to quit", <<>>)>>],
               history |-> history, state |-> "Running"])

\* MinimalTerminal.run: input() raises EOFError
MinimalEOF(bound) ==
    /\ terminal = "MinimalTerminal" /\ state = "Running" /\ Len(log) < bound
    /\ AtInput
    /\ Commit("eof", <<>>,
              [res |-> Res(Session), history |-> history, state |-> "Terminated"])

\* run, top of an iteration: the prompt is built and the loop blocks in
\* input(), or building it raises and control passes to except Exception
BuildPrompt ==
    /\ state = "Running" /\ pc = "prompt"
    /\ pc' = (IF Prompt.raised = "none" THEN "input" ELSE "except")
    /\ UNCHANGED <<version, terminal, system, aliases, current_dir, cwd, dirs,
                   history, state, log, login_ok>>

\* run, except Exception: the error is printed and the loop continues with
\* the next iteration
ReportError ==
    /\ state = "Running" /\ pc = "except"
    /\ pc' = "prompt"
    /\ UNCHANGED <<version, terminal, system, aliases, current_dir, cwd, dirs,
                   history, state, log, login_ok>>

\* ---------------------------------------------------------- specifications
\* every kind of line, short sessions
Next ==
    \/ \E line \in Lines : SimpleLine(line, MaxSteps)
    \/ SimpleInterrupt(MaxSteps)
    \/ SimpleEOF(MaxSteps)
    \/ \E line \in Lines : MinimalLine(line, MaxSteps)
    \/ MinimalInterrupt(MaxSteps)
    \/ MinimalEOF(MaxSteps)

Spec == Init /\ [][Next]_vars

\* navigation lines, longer sessions
NextNav ==
    \/ \E line \in NavLines : SimpleLine(line, MaxNavSteps)
    \/ \E line \in NavLines : MinimalLine(line, MaxNavSteps)

SpecNav == Init /\ [][NextNav]_vars

\* the four lines of the scenario, in any order
NextScenario ==
    \/ \E line \in ScenarioLines : SimpleLine(line, MaxScenarioSteps)

SpecScenario == Init /\ [][NextScenario]_vars

\* sessions long enough for more than ten history entries, in which no
\* OS call fails and no command is interrupted
NextHist ==
    \/ \E line \in HistLines : SimpleStep(line, MaxHistSteps, {OsOk})

SpecHist == Init /\ [][NextHist]_vars

\* changes of directory followed by commands that start a process
NextSpawn ==
    \/ \E line \in SpawnLines : SimpleLine(line, MaxSpawnSteps)
    \/ \E line \in SpawnLines : MinimalLine(line, MaxSpawnSteps)

SpecSpawn == Init /\ [][NextSpawn]_vars

\* the loop step by step: building the prompt, reading, reporting an error
NextPrompt ==
    \/ BuildPrompt
    \/ ReportError
    \/ \E line \in PromptLines : SimpleLine(line, MaxPromptSteps)
    \/ SimpleInterrupt(MaxPromptSteps)
    \/ SimpleEOF(MaxPromptSteps)
    \/ \E line \in PromptLines : MinimalLine(line, MaxPromptSteps)

SpecPrompt == Init /\ [][NextPrompt]_vars

\* the program is sequential and takes its next step whenever it has one;
\* what arrives on the input is up to the user
SpecPromptFair == SpecPrompt /\ WF_vars(BuildPrompt) /\ WF_vars(ReportError)

\* ----------------------------------------------------------------- claims
Simple == terminal = "SimpleTerminal"

\* the line as the loop sees it: input(prompt).strip()
Typed(e) == strip(e.line)

\* the entries of the log in which the loop read a non-empty line
LineEntries == {i \in DOMAIN log : log[i].kind = "line" /\ Typed(log[i]) # <<>>}

\* the history before iteration i
HistoryBefore(i) == IF i = 1 THEN <<>> ELSE log[i - 1].history

\* C1: the session loop of SimpleTerminal leaves Running only when the line
\* just entered is exit or quit (any letter case) or when the input source
\* signals end-of-input; every other iteration (a failed cd, a usage error,
\* an interrupt, a failed launch) leaves the session Running.
C1_OnlyExitOrEofTerminates ==
    Simple =>
        \A i \in DOMAIN log :
            log[i].state # "Running" =>
                \/ log[i].kind = "eof"
                \/ /\ log[i].kind = "line"
                   /\ lower(Typed(log[i])) \in {s_exit, s_quit}

\* C2: after every navigation attempt the session's current_dir equals the
\* working directory of the process, and a failed attempt leaves both as
\* they were.
C2_CurrentDirIsProcessDir ==
    \A i \in DOMAIN log :
        log[i].res.handler = "cd" =>
            /\ log[i].res.current_dir = log[i].res.cwd
            /\ ~log[i].res.ret =>
                   /\ log[i].res.current_dir = log[i].pre.current_dir
                   /\ log[i].res.cwd = log[i].pre.cwd

\* the path a navigation token stands for, by the resolution order of the
\* Path Resolver: the home sentinel, the previous-directory sentinel, a
\* home prefix, a relative path joined onto the current directory; then
\* normalization
Resolved(token, cur) ==
    LET q == IF token = Tilde THEN Path_home
             ELSE IF token = Dash THEN dirname(cur)
             ELSE IF startswith(token, Tilde) THEN expanduser(token)
             ELSE token
    IN normpath(IF isabs(q) THEN q ELSE path_join(cur, q))

\* C3: when the path given to change_directory, resolved against the
\* current directory and normalized, does not exist or is not a directory,
\* change_directory prints 'Directory not found' and returns failure, and
\* the current directory, the process directory, the history and the alias
\* table are what they were before the call.
C3_MissingPathIsNotFound ==
    Simple =>
        /\ aliases = load_aliases(system, version)
        /\ \A i \in DOMAIN log :
            LET e == log[i]
                target == Resolved(e.res.arg, e.pre.current_dir)
            IN (e.res.handler = "cd"
                /\ lookup(target, e.pre.cwd, e.pre.dirs).kind # "dir") =>
                   /\ e.res.out = <<Msg("Directory not found", target)>>
                   /\ ~e.res.ret
                   /\ e.res.current_dir = e.pre.current_dir
                   /\ e.res.cwd = e.pre.cwd
                   /\ e.res.dirs = e.pre.dirs
                   /\ e.history = Append(HistoryBefore(i), Typed(e))

\* a navigation to a regular file and one to a missing path were both
\* refused, from a subdirectory
C3_Witness ==
    /\ Simple
    /\ \E i \in DOMAIN log :
          /\ log[i].res.handler = "cd"
          /\ log[i].pre.current_dir = SubDir
          /\ lookup(Resolved(log[i].res.arg, log[i].pre.current_dir),
                    log[i].pre.cwd, log[i].pre.dirs).kind # "dir"
          /\ log[i].res.out # <<>>
          /\ log[i].res.out[1].tag = "Directory not found"

\* the normalized absolute form of the path d for the current directory cur
AbsoluteForm(d, cur) == normpath(IF isabs(d) THEN d ELSE path_join(cur, d))

\* the cd entries whose argument, read as an absolute path or as a path
\* relative to the current directory, names an existing directory
NamesExistingDir(e) ==
    /\ e.res.handler = "cd"
    /\ lookup(AbsoluteForm(e.res.arg, e.pre.current_dir), e.pre.cwd, e.pre.dirs).kind = "dir"

\* C4 as claimed: for every existing directory d, absolute or relative to
\* the current directory, change_directory(d) succeeds and afterwards the
\* current directory equals the normalized absolute form of d.
C4_ExistingDirectoryIsEntered ==
    Simple =>
        \A i \in DOMAIN log :
            NamesExistingDir(log[i]) =>
                /\ log[i].res.ret
                /\ log[i].res.current_dir
                       = AbsoluteForm(log[i].res.arg, log[i].pre.current_dir)

\* C4 as amended: for every existing directory d given by a path other
\* than the sentinel - and not beginning with ~, change_directory(d)
\* succeeds unless os.chdir or os.getcwd raises, in which case it prints
\* 'Error changing directory' and fails; after a success the current
\* directory is the directory that the normalized absolute form of d names
\* once symbolic links are resolved, which is what os.getcwd() reports.
C4_ExistingDirectoryIsEnteredUnlessOsFails ==
    Simple =>
        \A i \in DOMAIN log :
            LET e == log[i]
                target == AbsoluteForm(e.res.arg, e.pre.current_dir)
                real == lookup(target, e.pre.cwd, e.pre.dirs).dir
            IN (NamesExistingDir(e) /\ e.res.arg # Dash /\ ~startswith(e.res.arg, Tilde)) =>
                   IF e.res.oserror = "none"
                   THEN /\ e.res.ret
                        /\ e.res.current_dir = real
                        /\ e.res.cwd = real
                        /\ e.res.out = <<>>
                   ELSE /\ ~e.res.ret
                        /\ e.res.out = <<Msg("Error changing directory", target)>>

\* a relative path with a .. segment was entered and moved the session,
\* and a path through the symbolic link was entered as well
C4_Witness ==
    /\ Simple
    /\ \E i \in DOMAIN log :
          /\ NamesExistingDir(log[i])
          /\ ~isabs(log[i].res.arg)
          /\ \E k \in 1..(Len(log[i].res.arg) - 1) : SubSeq(log[i].res.arg, k, k + 1) = DotDot
          /\ log[i].res.ret
          /\ log[i].res.current_dir # log[i].pre.current_dir
    /\ \E i \in DOMAIN log :
          /\ NamesExistingDir(log[i])
          /\ log[i].res.arg = LinkPath
          /\ log[i].res.ret
          /\ log[i].res.current_dir = LinkTarget

\* the first token of a typed line and what follows its first separator
FirstToken(s) == FirstWord(lstrip(s))
AfterFirstToken(s) == SliceFrom(lstrip(s), Len(FirstToken(s)) + 1)
HasArguments(s) == Len(lstrip(s)) > Len(FirstToken(s))

RECURSIVE TypedUpTo(_)
TypedUpTo(n) ==
    IF n = 0 THEN <<>>
    ELSE IF n \in LineEntries THEN Append(TypedUpTo(n - 1), Typed(log[n]))
    ELSE TypedUpTo(n - 1)

\* the last n elements of a sequence
LastN(seq, n) == [k \in 1..n |-> seq[Len(seq) - n + k]]

\* C6: entering history prints at most 10 entries, exactly the most
\* recently entered non-empty lines with the history line itself included,
\* oldest first and numbered from 1; it starts no process and changes
\* nothing in the session but the history, to which the line is appended.
C6_HistoryShowsLastTen ==
    Simple =>
        \A i \in LineEntries :
            Typed(log[i]) = s_history =>
                LET e == log[i]
                    entered == TypedUpTo(i)
                    n == IF Len(entered) < HistoryShown THEN Len(entered) ELSE HistoryShown
                    shown == LastN(entered, n)
                IN /\ e.res.handler = "history"
                   /\ Len(e.res.out) = n + 1
                   /\ \A k \in 1..n : e.res.out[k + 1] = MsgN("entry", shown[k], k)
                   /\ e.res.spawn = <<>>
                   /\ e.res.current_dir = e.pre.current_dir
                   /\ e.res.cwd = e.pre.cwd
                   /\ e.res.dirs = e.pre.dirs
                   /\ e.history = Append(HistoryBefore(i), s_history)
                   /\ e.state = "Running"

\* the scenario of C7
Scenario == <<<<"m","k","d","i","r"," ","s">>, <<"c","d"," ","s">>, <<"c","d"," ","-">>, <<"p","w","d">>>>
ScenarioDir == <<"s">>

\* C7: from every starting directory D in which s does not exist yet, the
\* lines mkdir s, cd s, cd -, pwd create D/s and report its path, make D/s
\* the current directory, return to D, and print D, and the session is
\* Running after each of them.
C7_MkdirCdBackPwd ==
    (/\ Simple
     /\ log # <<>>
     /\ Len(log) <= Len(Scenario)
     /\ \A i \in DOMAIN log : log[i].kind = "line" /\ Typed(log[i]) = Scenario[i]
     /\ path_join(log[1].pre.current_dir, ScenarioDir) \notin log[1].pre.dirs) =>
        LET D == log[1].pre.current_dir
            Ds == path_join(D, ScenarioDir)
        IN /\ \A i \in DOMAIN log : log[i].state = "Running"
           /\ /\ Ds \in log[1].res.dirs
              /\ \E k \in DOMAIN log[1].res.out :
                    /\ log[1].res.out[k].tag = "Directory created"
                    /\ log[1].res.out[k].text \in {ScenarioDir, Ds}
           /\ Len(log) >= 2 => log[2].res.current_dir = Ds
           /\ Len(log) >= 3 => log[3].res.current_dir = D
           /\ Len(log) >= 4 => log[4].res.out = <<Msg("print", D)>>

l_cd_dash == <<"c","d"," ","-">>

\* C8: when the current directory is the file-system root, every one of
\* any number of consecutive 'cd -' lines of a SimpleTerminal succeeds: no
\* error is reported, the session stays Running, and the current directory
\* and the process directory stay the root.
C8_PreviousAtRootIsNoOp ==
    Simple =>
        \A i \in LineEntries :
            (Typed(log[i]) = l_cd_dash /\ log[i].pre.current_dir = RootDir) =>
                /\ log[i].state = "Running"
                /\ log[i].res.ret
                /\ log[i].res.oserror = "none"
                /\ log[i].res.out = <<Msg("Already at root directory", <<>>)>>
                /\ log[i].res.current_dir = RootDir
                /\ log[i].res.cwd = log[i].pre.cwd

\* 'cd -' was entered at the root twice in a row
C8_Witness ==
    /\ Simple
    /\ Len(log) >= 2
    /\ \A i \in {Len(log) - 1, Len(log)} :
          /\ log[i].kind = "line"
          /\ Typed(log[i]) = l_cd_dash
          /\ log[i].pre.current_dir = RootDir
          /\ log[i].res.current_dir = RootDir

BuiltinVerbs ==
    {s_cd, s_exit, s_quit, s_clear, s_cls, s_pwd, s_mkdir, s_ls, s_dir, s_history, s_help}

\* the verb of a line after alias expansion, compared case-insensitively
Verb(e) == lower(FirstToken(e.res.expanded))

\* C9: a line whose first token after alias expansion is not a built-in
\* verb runs no built-in handler: the External Delegator is called with
\* exactly the expanded line.
C9_UnknownVerbIsDelegated ==
    Simple =>
        \A i \in LineEntries :
            Verb(log[i]) \notin BuiltinVerbs =>
                /\ log[i].res.handler = "external"
                /\ log[i].res.arg = log[i].res.expanded

\* C10: a line whose verb after alias expansion is ls or dir, with or
\* without arguments, is handled by the listing built-in, which runs the
\* platform's native listing command with the remaining arguments; it is
\* never delegated as an external command.
C10_ListingIsBuiltin ==
    Simple =>
        \A i \in LineEntries :
            Verb(log[i]) \in {s_ls, s_dir} =>
                /\ log[i].res.handler = "ls"
                /\ Len(log[i].res.spawn) = 1
                /\ log[i].res.spawn[1].via = "system"
                /\ split(log[i].res.spawn[1].cmd)
                       = <<IF system = "windows" THEN s_dir ELSE s_ls>>
                         \o Tail(split(log[i].res.expanded))

\* C11: on every platform a line that is only clear or only cls, in any
\* letter case, is handled by the clear-screen built-in: clear_screen runs
\* and nothing is forwarded to the External Delegator.
C11_ClearIsBuiltin ==
    Simple =>
        \A i \in LineEntries :
            lower(Typed(log[i])) \in {s_clear, s_cls} =>
                /\ log[i].res.handler = "clear"
                /\ \A k \in DOMAIN log[i].res.spawn : log[i].res.spawn[k].via = "system"

\* C12: on every platform, with or without the alias overlay, the line pwd
\* prints the session's current directory and changes neither the current
\* directory nor the directory of the process.
C12_PwdPrintsCurrentDir ==
    Simple =>
        \A i \in LineEntries :
            Typed(log[i]) = s_pwd =>
                /\ log[i].res.out = <<Msg("print", log[i].pre.current_dir)>>
                /\ log[i].res.current_dir = log[i].pre.current_dir
                /\ log[i].res.cwd = log[i].pre.cwd

s_md == <<"m","d">>

\* the path argument of a mkdir or md line
MkdirPath(e) == strip(AfterFirstToken(Typed(e)))

\* C13: mkdir or md without a path prints a usage error, creates nothing,
\* starts no process, keeps the current directory and leaves the session
\* running; with a path it creates the directory and its missing ancestors
\* at the path resolved against the session's current directory and
\* reports the created path.
C13_MkdirCreatesOrReportsUsage ==
    Simple =>
        \A i \in LineEntries :
            FirstToken(Typed(log[i])) \in {s_mkdir, s_md} =>
                IF MkdirPath(log[i]) = <<>>
                THEN /\ log[i].res.out = <<Msg("mkdir: missing path", <<>>)>>
                     /\ log[i].res.dirs = log[i].pre.dirs
                     /\ log[i].res.spawn = <<>>
                     /\ log[i].res.current_dir = log[i].pre.current_dir
                     /\ log[i].state = "Running"
                ELSE /\ log[i].res.handler = "mkdir"
                     /\ log[i].res.oserror = "none" =>
                          /\ lookup(MkdirPath(log[i]), log[i].pre.current_dir,
                                    log[i].res.dirs).kind = "dir"
                          /\ log[i].res.out
                               = <<Msg("Directory created", log[i].res.arg)>>

\* C14: the loop does not go on to read the next line while a process it
\* started is still running: when an iteration ends with the session
\* running, every process started in it has been waited on.
C14_SpawnedProcessIsWaitedOn ==
    Simple =>
        \A i \in DOMAIN log :
            log[i].state = "Running" =>
                \A k \in DOMAIN log[i].res.spawn : log[i].res.spawn[k].waited

\* C15: in every terminal loop, end of input moves the session from
\* Running to Terminated, a farewell is printed, and no further line is
\* read.
C15_EofTerminatesWithFarewell ==
    \A i \in DOMAIN log :
        log[i].kind = "eof" =>
            /\ log[i].state = "Terminated"
            /\ \E k \in DOMAIN log[i].res.out : log[i].res.out[k].tag = "Goodbye!"
            /\ i = Len(log)
            /\ state = "Terminated"

l_cd_tilde == <<"c","d"," ","~">>

\* the line navigates to the home directory
HomeNavigation(e) == e.kind = "line" /\ Typed(e) \in {s_cd, l_cd_tilde}

IsPrefix(a, b) == Len(a) <= Len(b) /\ SubSeq(b, 1, Len(a)) = a

\* the history now
HistoryNow == IF log = <<>> THEN <<>> ELSE log[Len(log)].history

l_ll_padded == <<" ","l","l"," ">>

C18_RunningLeadsToInputOrEnd ==
    (state = "Running") ~> (state # "Running" \/ pc = "input")

\* the alias the line begins with expands to text that itself begins with
\* an alias
ChainedAlias(e) ==
    /\ FirstToken(Typed(e)) \in DOMAIN aliases
    /\ FirstToken(aliases[FirstToken(Typed(e))]) \in DOMAIN aliases

\* C19: alias expansion is applied exactly once and is not recursive: when
\* the expansion of the first token begins with a token that is itself an
\* alias (ll -> 'ls -la' where the overlay maps ls -> dir), the result
\* keeps that token, and execute_command classifies and forwards this
\* single-step expansion.
C19_ExpansionIsSingleStep ==
    Simple =>
        \A i \in LineEntries :
            ChainedAlias(log[i]) =>
                /\ log[i].res.expanded
                     = aliases[FirstToken(Typed(log[i]))] \o Space
                       \o join(Space, Tail(split(Typed(log[i]))))
                /\ FirstToken(log[i].res.expanded)
                     = FirstToken(aliases[FirstToken(Typed(log[i]))])
                /\ log[i].res.handler = "external" =>
                      /\ log[i].res.arg = log[i].res.expanded
                      /\ \A k \in DOMAIN log[i].res.spawn :
                             log[i].res.spawn[k].cmd = log[i].res.expanded

l_ll == <<"l","l">>

\* ll was run where ls is an alias too, and a process was started for the
\* expansion that still begins with ls
C19_Witness ==
    /\ Simple
    /\ Len(log) = 1
    /\ Typed(log[1]) = l_ll
    /\ s_ls \in DOMAIN aliases
    /\ Len(log[1].res.spawn) = 1
    /\ FirstToken(log[1].res.spawn[1].cmd) = s_ls

\* C20: every process the session starts for a command, by the External
\* Delegator or by the listing built-in, runs in the directory that is the
\* session's current directory when it is started, whatever successful and
\* failed cd commands came before.
C20_SpawnInCurrentDir ==
    \A i \in DOMAIN log :
        \A k \in DOMAIN log[i].res.spawn :
            log[i].res.spawn[k].cwd = log[i].pre.current_dir

\* a cd moved the session and the next line started a process there
C20_Witness ==
    /\ Len(log) = 2
    /\ log[1].res.handler = "cd"
    /\ log[1].res.current_dir # log[1].pre.current_dir
    /\ Len(log[2].res.spawn) = 1
    /\ log[2].res.spawn[1].cwd = log[1].res.current_dir
====
